---- MODULE Spec2Model ----
(***************************************************************************)
(* Basketball Tagging App (BasketballTaggerVersion3.py): the session       *)
(* state of the Streamlit script, its button handlers, and the metrics     *)
(* table compute_metrics derives from the log.                             *)
(*                                                                         *)
(* A play name is a sequence of one-character strings.  A float64 value    *)
(* (the pandas columns PPP, Frequency and Success Rate) is a tuple         *)
(* <<e, c1, c2, c3>> standing for (c1*2^36 + c2*2^18 + c3) * 2^(e-52),     *)
(* the 53-bit significand cut in limbs of 17, 18 and 18 bits; zero is      *)
(* <<0, 0, 0, 0>>.                                                         *)
(***************************************************************************)
EXTENDS Integers, Sequences, FiniteSets, TLC

\* ------------------------------------------------------------------
\* Strings: str.strip, str.lower and the ordering of str
\* ------------------------------------------------------------------

\* The characters names are typed from.
Chars == {" ", "A", "B", "a", "b"}

\* ord(c) of the characters above.
Ord(c) ==
  CASE c = " " -> 32
    [] c = "A" -> 65
    [] c = "B" -> 66
    [] c = "a" -> 97
    [] c = "b" -> 98

IsSpace(c) == c = " "

\* str.lower on one character.
LowerChar(c) ==
  CASE c = "A" -> "a"
    [] c = "B" -> "b"
    [] OTHER -> c

\* str.lower
Lower(s) == [i \in 1..Len(s) |-> LowerChar(s[i])]

RECURSIVE LStrip(_)
LStrip(s) == IF s # <<>> /\ IsSpace(Head(s)) THEN LStrip(Tail(s)) ELSE s

RECURSIVE RStrip(_)
RStrip(s) ==
  IF s # <<>> /\ IsSpace(s[Len(s)]) THEN RStrip(SubSeq(s, 1, Len(s) - 1)) ELSE s

\* str.strip
Strip(s) == RStrip(LStrip(s))

\* s < t for str: lexicographic on code points, a proper prefix first.
RECURSIVE StrLess(_, _)
StrLess(s, t) ==
  IF t = <<>> THEN FALSE
  ELSE IF s = <<>> THEN TRUE
  ELSE IF Ord(Head(s)) # Ord(Head(t)) THEN Ord(Head(s)) < Ord(Head(t))
  ELSE StrLess(Tail(s), Tail(t))

\* ------------------------------------------------------------------
\* float64: int / int (true division), +, and comparison
\* ------------------------------------------------------------------

FZero == <<0, 0, 0, 0>>

FOne == <<0, 65536, 0, 0>>

Limb == 2 ^ 18

\* The largest k with den * 2^k <= num (num >= den >= 1).
RECURSIVE ExpUp(_, _)
ExpUp(num, den) == IF 2 * den <= num THEN 1 + ExpUp(num, 2 * den) ELSE 0

\* The least k with num * 2^k >= den (num >= 1).
RECURSIVE ExpDown(_, _)
ExpDown(num, den) == IF num >= den THEN 0 ELSE 1 + ExpDown(2 * num, den)

\* significand + 1 ulp, carried through the limbs and into the exponent.
FIncr(x) ==
  IF x[4] + 1 < Limb THEN <<x[1], x[2], x[3], x[4] + 1>>
  ELSE IF x[3] + 1 < Limb THEN <<x[1], x[2], x[3] + 1, 0>>
  ELSE IF x[2] + 1 < 131072 THEN <<x[1], x[2] + 1, 0, 0>>
  ELSE <<x[1] + 1, 65536, 0, 0>>

\* a / n of two non-negative integers, n >= 1, correctly rounded
\* (round to nearest, ties to even) as IEEE 754 division is.
FDiv(a, n) ==
  IF a = 0 THEN FZero
  ELSE
    LET up  == IF a >= n THEN ExpUp(a, n) ELSE 0
        dn  == IF a >= n THEN 0 ELSE ExpDown(a, n)
        num == a * (2 ^ dn)
        den == n * (2 ^ up)
        c1  == (num * 65536) \div den
        r1  == (num * 65536) % den
        c2  == (r1 * Limb) \div den
        r2  == (r1 * Limb) % den
        c3  == (r2 * Limb) \div den
        r3  == (r2 * Limb) % den
        t   == <<up - dn, c1, c2, c3>>
    IN  IF 2 * r3 > den \/ (2 * r3 = den /\ c3 % 2 = 1) THEN FIncr(t) ELSE t

\* x < y for non-negative floats.
FLess(x, y) ==
  IF x = FZero THEN y # FZero
  ELSE IF y = FZero THEN FALSE
  ELSE \E k \in 1..4 : x[k] < y[k] /\ \A j \in 1..(k - 1) : x[j] = y[j]

FLeq(x, y) == x = y \/ FLess(x, y)

\* Bit k (0 = least significant) of the significand of x.
FBit(x, k) ==
  IF k < 18 THEN (x[4] \div (2 ^ k)) % 2
  ELSE IF k < 36 THEN (x[3] \div (2 ^ (k - 18))) % 2
  ELSE (x[2] \div (2 ^ (k - 36))) % 2

\* Limb j (0 = least significant) of sig(x) \div 2^d, 0 <= d <= 53.
ShiftedLimb(x, d, j) ==
  LET L  == <<x[4], x[3], x[2], 0, 0, 0>>
      q  == d \div 18
      s  == d % 18
      lo == L[j + q + 1] \div (2 ^ s)
      hi == (L[j + q + 2] % (2 ^ s)) * (2 ^ (18 - s))
  IN  lo + hi

\* <<e, c1, c2, c3>> halved once more when the sum carried out of 53 bits,
\* followed by the guard bit and the sticky bit of what was cut off.
FNormalize(e, c1, c2, c3, guard, sticky) ==
  IF c1 < 2 ^ 17 THEN <<e, c1, c2, c3, guard, sticky>>
  ELSE <<e + 1,
         c1 \div 2,
         (c1 % 2) * (2 ^ 17) + (c2 \div 2),
         (c2 % 2) * (2 ^ 17) + (c3 \div 2),
         c3 % 2,
         IF guard = 1 \/ sticky = 1 THEN 1 ELSE 0>>

\* x + y of two non-negative floats, correctly rounded (round to nearest,
\* ties to even): the smaller operand is shifted to the larger one's
\* exponent, keeping a guard and a sticky bit of what is shifted out.
FAdd(x, y) ==
  IF x = FZero THEN y
  ELSE IF y = FZero THEN x
  ELSE
    LET big   == IF x[1] >= y[1] THEN x ELSE y
        small == IF x[1] >= y[1] THEN y ELSE x
        d     == big[1] - small[1]
    IN  IF d >= 54 THEN big
        ELSE
          LET guard  == IF d >= 1 THEN FBit(small, d - 1) ELSE 0
              sticky == IF \E k \in 0..(d - 2) : FBit(small, k) = 1 THEN 1 ELSE 0
              s3     == big[4] + ShiftedLimb(small, d, 0)
              s2     == big[3] + ShiftedLimb(small, d, 1) + (s3 \div Limb)
              s1     == big[2] + ShiftedLimb(small, d, 2) + (s2 \div Limb)
              n      == FNormalize(big[1], s1, s2 % Limb, s3 % Limb, guard, sticky)
              t      == <<n[1], n[2], n[3], n[4]>>
          IN  IF n[5] = 1 /\ (n[6] = 1 \/ n[4] % 2 = 1) THEN FIncr(t) ELSE t

\* ------------------------------------------------------------------
\* Session state
\* ------------------------------------------------------------------

VARIABLES
  plays,          \* st.session_state["plays"]: list of names
  log,            \* st.session_state["log"]: list of event records
  selected_play,  \* st.session_state["selected_play"]: a name or None
  opponent,       \* st.session_state["opponent"]
  quarter,        \* st.session_state["quarter"]
  new_play,       \* st.session_state["new_play"]: the text of the name box
  clicked,        \* the button whose click caused the last run of the script
  notice,         \* the message a handler showed in the last run
  metrics,        \* the table the last compute_metrics call returned
  computed        \* whether compute_metrics has been called

vars ==
  <<plays, log, selected_play, opponent, quarter, new_play, clicked, notice,
    metrics, computed>>

None == "None"

NoButton == "no button"

NoNotice == "no notice"

\* The game date: init_state sets date.today(), which is always truthy.
game_date == "today"

\* datetime.now() formatted to the second: read from the environment and
\* never read back by the script.
Now == "now"

\* The options of the Quarter select box.
QuarterOptions == <<"", "1", "2", "3", "4", "OT">>

\* The keys of the points table, and a value that is not one of them.
KnownResults == {"Made 2", "Made 3", "Missed 2", "Missed 3", "Foul"}

ResultInputs == KnownResults \cup {"Turnover"}

\* The points table with Made 3 scored as a two.
points_made_scores_two(result) ==
  IF result \in {"Made 2", "Made 3"} THEN 2 ELSE 0

\* dict.get(result, 0) on the points table.
points_from_result(result) ==
  CASE result = "Made 2" -> 2
    [] result = "Made 3" -> 3
    [] result = "Missed 2" -> 0
    [] result = "Missed 3" -> 0
    [] result = "Foul" -> 0
    [] OTHER -> 0

\* The record add_log builds.
Event(opp, qtr, play, result) ==
  [timestamp |-> Now, opponent |-> opp, game_date |-> game_date,
   quarter |-> qtr, play |-> play, result |-> result,
   points |-> points_from_result(result)]

\* add_log recording the play name lower-cased.
add_log_lowered(lg, opp, qtr, play, result) ==
  Append(lg, Event(opp, qtr, Lower(play), result))

\* The log after add_log(play, result).
add_log(lg, opp, qtr, play, result) == Append(lg, Event(opp, qtr, play, result))

ready_to_tag == opponent # "" /\ game_date # "" /\ quarter # ""

\* {p.lower() for p in plays}
existing_lower(ps) == {Lower(ps[i]) : i \in DOMAIN ps}

\* The text of the name box taken as it is.
raw_name_unstripped(text) == text

\* The name add_play works on: the text of the name box, stripped.
raw_name(text) == Strip(text)

\* The duplicate test without lower-casing.
is_duplicate_exact(raw, ps) == raw \in {ps[i] : i \in DOMAIN ps}

\* add_play's duplicate test.
is_duplicate(raw, ps) == Lower(raw) \in existing_lower(ps)

\* ------------------------------------------------------------------
\* compute_metrics
\* ------------------------------------------------------------------

\* The least string of a non-empty set.
MinStr(S) == CHOOSE x \in S : \A y \in S : y = x \/ StrLess(x, y)

\* groupby("play") orders the groups by key, ascending.
RECURSIVE SortedKeys(_)
SortedKeys(S) ==
  IF S = {} THEN <<>> ELSE <<MinStr(S)>> \o SortedKeys(S \ {MinStr(S)})

group_keys(lg) == SortedKeys({lg[i].play : i \in DOMAIN lg})

\* The group size counting shots only.
group_size_shots(lg, play) ==
  Cardinality({i \in DOMAIN lg :
    /\ lg[i].play = play
    /\ lg[i].result \in {"Made 2", "Made 3", "Missed 2", "Missed 3"}})

\* groupby("play").size(): every event of the play, whatever its result.
group_size(lg, play) == Cardinality({i \in DOMAIN lg : lg[i].play = play})

\* groupby("play")["points"].sum()
RECURSIVE group_points(_, _)
group_points(lg, play) ==
  IF lg = <<>> THEN 0
  ELSE (IF Head(lg).play = play THEN Head(lg).points ELSE 0)
       + group_points(Tail(lg), play)

\* The number of rows taken for the total: metrics["Attempts"].count().
total_rows(lg, keys) == Len(keys)

\* metrics["Attempts"].sum()
RECURSIVE total_attempts(_, _)
total_attempts(lg, keys) ==
  IF keys = <<>> THEN 0
  ELSE group_size(lg, Head(keys)) + total_attempts(lg, Tail(keys))

\* log_df[made_mask].groupby("play").size().get(play_name, 0)
made_counts(lg, play_name) ==
  Cardinality({i \in DOMAIN lg :
    lg[i].play = play_name /\ lg[i].result \in {"Made 2", "Made 3"}})

\* The shot attempts with every event of the play counted, fouls included.
shot_attempts_all(lg, play_name) ==
  Cardinality({i \in DOMAIN lg : lg[i].play = play_name})

\* log_df[att_mask].groupby("play").size().get(play_name, 0)
shot_attempts(lg, play_name) ==
  Cardinality({i \in DOMAIN lg :
    /\ lg[i].play = play_name
    /\ lg[i].result \in {"Made 2", "Made 3", "Missed 2", "Missed 3"}})

success_rate(lg, play_name) ==
  LET made == made_counts(lg, play_name)
      atts == shot_attempts(lg, play_name)
  IN  IF atts # 0 THEN FDiv(made, atts) ELSE FZero

\* metrics["Attempts"] / (total_attempts if total_attempts else 1)
frequency(attempts, total) == FDiv(attempts, IF total # 0 THEN total ELSE 1)

metrics_row(lg, play, total) ==
  [Play |-> play,
   Attempts |-> group_size(lg, play),
   Points |-> group_points(lg, play),
   PPP |-> FDiv(group_points(lg, play), group_size(lg, play)),
   Frequency |-> frequency(group_size(lg, play), total),
   SuccessRate |-> success_rate(lg, play)]

\* The sort order without its second key.
sorts_before_ppp_only(r, q) == FLess(q.PPP, r.PPP)

\* Whether row r sorts strictly before row q: PPP descending, then Attempts
\* descending.
sorts_before(r, q) ==
  \/ FLess(q.PPP, r.PPP)
  \/ r.PPP = q.PPP /\ r.Attempts > q.Attempts

\* r put into the sorted rows behind every row it does not sort before.
RECURSIVE insert_row(_, _)
insert_row(r, rows) ==
  IF rows = <<>> THEN <<r>>
  ELSE IF sorts_before(r, Head(rows)) THEN <<r>> \o rows
  ELSE <<Head(rows)>> \o insert_row(r, Tail(rows))

\* sort_values(by=["PPP", "Attempts"], ascending=[False, False]): a stable
\* sort, rows that tie on both keys keep the order they came in.
RECURSIVE sort_values(_)
sort_values(rows) ==
  IF rows = <<>> THEN <<>>
  ELSE insert_row(rows[Len(rows)], sort_values(SubSeq(rows, 1, Len(rows) - 1)))

compute_metrics(lg) ==
  IF lg = <<>> THEN <<>>
  ELSE
    LET keys  == group_keys(lg)
        total == total_attempts(lg, keys)
    IN  sort_values([k \in 1..Len(keys) |-> metrics_row(lg, keys[k], total)])

\* ------------------------------------------------------------------
\* Bounds and inputs
\* ------------------------------------------------------------------

\* The log is unbounded in the script; the model stops tagging at this
\* length.  The registry is bounded by the names typed: it holds at most one
\* of the names that are equal ignoring case.
MaxLog == 2

\* The longest log compute_metrics is applied to on its own.
MaxEvents == 3

\* The longest log the Frequency column is computed for on its own.
MaxFreqEvents == 6

\* The texts typed into the name box.
NameInputs ==
  {<<>>, <<" ">>, <<"a">>, <<" ", "A">>, <<"b", " ">>}

\* The opponents typed and the quarters selected.
OpponentInputs == {"", "Lakers"}

QuarterInputs == {QuarterOptions[1], QuarterOptions[2]}

\* The play names of the logs compute_metrics is applied to on its own.
MetricPlays == {<<"a">>, <<"B">>, <<"a", " ", "b">>}

\* The results of the logs the Frequency column is computed for.
FreqResults == {"Made 2", "Foul"}

\* Every log of at most n events add_log can build from the plays ps and
\* the results rs, in one game context.
LogsOf(ps, rs, n) ==
  LET E == {Event("Lakers", "1", p, r) : p \in ps, r \in rs}
  IN  UNION {[1..k -> E] : k \in 0..n}

\* ------------------------------------------------------------------
\* The script
\* ------------------------------------------------------------------

\* init_state on a fresh session.
init_state ==
  /\ plays = <<>>
  /\ log = <<>>
  /\ selected_play = None
  /\ opponent = ""
  /\ quarter = ""
  /\ new_play = <<>>

Init ==
  /\ init_state
  /\ clicked = NoButton
  /\ notice = NoNotice
  /\ metrics = <<>>
  /\ computed = FALSE

\* A run of the script caused by a widget other than a button.
NoClick == clicked' = NoButton /\ notice' = NoNotice

\* The Opponent text input.
SetOpponent(o) ==
  /\ o # opponent
  /\ opponent' = o
  /\ NoClick
  /\ UNCHANGED <<plays, log, selected_play, quarter, new_play, metrics, computed>>

\* The Quarter select box.
SetQuarter(q) ==
  /\ q # quarter
  /\ quarter' = q
  /\ NoClick
  /\ UNCHANGED <<plays, log, selected_play, opponent, new_play, metrics, computed>>

\* The New Play Name text input.
TypeNewPlay(text) ==
  /\ text # new_play
  /\ new_play' = text
  /\ NoClick
  /\ UNCHANGED <<plays, log, selected_play, opponent, quarter, metrics, computed>>

\* The ADD NEW PLAY button: add_play().
add_play ==
  LET raw == raw_name(new_play)
  IN  IF raw = <<>>
      THEN /\ notice' = NoNotice
           /\ UNCHANGED <<plays, new_play>>
      ELSE IF is_duplicate(raw, plays)
      THEN /\ notice' = "Play already exists."
           /\ UNCHANGED <<plays, new_play>>
      ELSE /\ plays' = Append(plays, raw)
           /\ new_play' = <<>>
           /\ notice' = NoNotice

ClickAddPlay ==
  /\ add_play
  /\ clicked' = "ADD NEW PLAY"
  /\ UNCHANGED <<log, selected_play, opponent, quarter, metrics, computed>>

\* A reset that clears the selection and leaves the log.
ResetGameKeepsLog ==
  /\ selected_play' = None
  /\ notice' = "Game state cleared."
  /\ UNCHANGED <<plays, log>>

\* The Reset Game button.
ResetGame ==
  /\ log' = <<>>
  /\ selected_play' = None
  /\ notice' = "Game state cleared."
  /\ UNCHANGED plays

ClickReset ==
  /\ ResetGame
  /\ clicked' = "Reset Game"
  /\ UNCHANGED <<opponent, quarter, new_play, metrics, computed>>

\* A play button of the grid: shown once the game is set up, one per play.
SelectPlay(p) ==
  /\ ready_to_tag
  /\ \E i \in DOMAIN plays : plays[i] = p
  /\ selected_play' = p
  /\ clicked' = "play"
  /\ notice' = NoNotice
  /\ UNCHANGED <<plays, log, opponent, quarter, new_play, metrics, computed>>

\* A result button: tags the selected play.
Tag(result) ==
  /\ ready_to_tag
  /\ selected_play # None
  /\ Len(log) < MaxLog
  /\ log' = add_log(log, opponent, quarter, selected_play, result)
  /\ clicked' = "result"
  /\ notice' = NoNotice
  /\ UNCHANGED <<plays, selected_play, opponent, quarter, new_play, metrics, computed>>

Next ==
  \/ \E o \in OpponentInputs : SetOpponent(o)
  \/ \E q \in QuarterInputs : SetQuarter(q)
  \/ \E text \in NameInputs : TypeNewPlay(text)
  \/ ClickAddPlay
  \/ ClickReset
  \/ \E p \in {plays[i] : i \in DOMAIN plays} : SelectPlay(p)
  \/ \E result \in ResultInputs : Tag(result)

Spec == Init /\ [][Next]_vars

\* ------------------------------------------------------------------
\* compute_metrics on its own
\* ------------------------------------------------------------------

\* A session whose log is lg, before compute_metrics is called.
SessionWithLog(lg) ==
  /\ log = lg
  /\ plays = SortedKeys(MetricPlays)
  /\ selected_play = None
  /\ opponent = "Lakers"
  /\ quarter = "1"
  /\ new_play = <<>>
  /\ clicked = NoButton
  /\ notice = NoNotice
  /\ metrics = <<>>
  /\ computed = FALSE

ComputeMetrics ==
  /\ ~computed
  /\ metrics' = compute_metrics(log)
  /\ computed' = TRUE
  /\ UNCHANGED <<plays, log, selected_play, opponent, quarter, new_play, clicked, notice>>

MetricsInit == \E lg \in LogsOf(MetricPlays, ResultInputs, MaxEvents) : SessionWithLog(lg)

MetricsSpec == MetricsInit /\ [][ComputeMetrics]_vars

FrequencyInit ==
  \E lg \in LogsOf(MetricPlays, FreqResults, MaxFreqEvents) : SessionWithLog(lg)

FrequencySpec == FrequencyInit /\ [][ComputeMetrics]_vars

\* ------------------------------------------------------------------
\* Properties
\* ------------------------------------------------------------------

AddClicked == "ADD NEW PLAY"

\* The names of the registry and the play names of the log.
RegistryNames == {plays[i] : i \in DOMAIN plays}

\* s consists of whitespace only (the empty text included).
AllSpaces(s) == \A i \in DOMAIN s : s[i] = " "

\* t is s without its leading and trailing whitespace.
IsTrimOf(t, s) ==
  /\ t # <<>>
  /\ t[1] # " "
  /\ t[Len(t)] # " "
  /\ \E k \in 0..(Len(s) - Len(t)) :
       /\ SubSeq(s, k + 1, k + Len(t)) = t
       /\ \A i \in DOMAIN s : (i <= k \/ i > k + Len(t)) => s[i] = " "

\* The non-empty pieces of s that are s without its surrounding whitespace
\* (one piece, or none when s is whitespace only).
Trims(s) ==
  {t \in {SubSeq(s, a, b) : a, b \in DOMAIN s} : IsTrimOf(t, s)}

\* s and t are equal up to the case of their letters.
SameIgnoringCase(s, t) ==
  /\ Len(s) = Len(t)
  /\ \A i \in DOMAIN s :
       \/ s[i] = t[i]
       \/ {s[i], t[i]} \in {{"a", "A"}, {"b", "B"}}

\* C1: the registry never holds two entries that are equal ignoring case,
\* and an add_play whose trimmed name equals an entry ignoring case leaves
\* the registry as it was.
C1_NoCaseDuplicates ==
  /\ [](\A i, j \in DOMAIN plays :
          i # j => ~SameIgnoringCase(plays[i], plays[j]))
  /\ [][(/\ clicked' = AddClicked
         /\ \E i \in DOMAIN plays, t \in Trims(new_play) :
              SameIgnoringCase(t, plays[i]))
        => plays' = plays]_vars

\* A duplicate that differs in case and in surrounding whitespace from the
\* one entry of the registry has just been rejected.
C1_Witness ==
  /\ clicked = AddClicked
  /\ notice = "Play already exists."
  /\ plays = <<<<"a">>>>
  /\ new_play = <<" ", "A">>

\* The points the result table gives, stated on its own.
ExpectedPoints(result) ==
  IF result = "Made 2" THEN 2 ELSE IF result = "Made 3" THEN 3 ELSE 0

\* C2: a tag appends exactly one event at the end of the log and changes no
\* earlier event; the new event's points are 2 for Made 2, 3 for Made 3 and
\* 0 for every other result, known or not.
C2_TagAppendsOne ==
  [][clicked' = "result" =>
      /\ Len(log') = Len(log) + 1
      /\ SubSeq(log', 1, Len(log)) = log
      /\ log'[Len(log')].play = selected_play
      /\ log'[Len(log')].points = ExpectedPoints(log'[Len(log')].result)]_vars

\* A Made 3 worth 3 points was tagged, then a result outside the table,
\* worth 0 points, behind it.
C2_Witness ==
  /\ clicked = "result"
  /\ Len(log) = 2
  /\ log[1].result = "Made 3" /\ log[1].points = 3
  /\ log[2].result = "Turnover" /\ log[2].points = 0

\* C3: Reset Game empties the log and leaves the registry as it was, and
\* compute_metrics on the log it leaves returns no rows.
C3_ResetClearsLogOnly ==
  [][clicked' = "Reset Game" =>
      /\ log' = <<>>
      /\ plays' = plays
      /\ Len(compute_metrics(log')) = 0]_vars

\* The game has just been reset while the registry holds two plays.
C3_Witness ==
  /\ clicked = "Reset Game"
  /\ notice = "Game state cleared."
  /\ Len(plays) = 2
  /\ log = <<>>
  /\ compute_metrics(log) = <<>>

\* The sum of the points fields of the events of lg at the positions I.
RECURSIVE PointsAt(_, _)
PointsAt(lg, I) ==
  IF I = {} THEN 0
  ELSE LET i == CHOOSE x \in I : TRUE
       IN  lg[i].points + PointsAt(lg, I \ {i})

\* The positions of the events of a play.
EventsOf(play) == {i \in DOMAIN log : log[i].play = play}

\* C4: compute_metrics returns one row per play name that occurs in the
\* log and no other row (none for an empty log); a row's Attempts is the
\* number of the play's events, of any result, and its Points the sum of
\* their points fields.
C4_RowsPerTaggedPlay ==
  computed =>
    /\ {metrics[k].Play : k \in DOMAIN metrics} = {log[i].play : i \in DOMAIN log}
    /\ \A k, m \in DOMAIN metrics : metrics[k].Play = metrics[m].Play => k = m
    /\ \A k \in DOMAIN metrics :
         /\ metrics[k].Attempts = Cardinality(EventsOf(metrics[k].Play))
         /\ metrics[k].Points = PointsAt(log, EventsOf(metrics[k].Play))

\* Two of the three registered plays were tagged; one has a Foul and a
\* Made 3, two attempts and three points.
C4_Witness ==
  /\ computed
  /\ Len(plays) = 3
  /\ Len(metrics) = 2
  /\ \E k \in DOMAIN metrics :
       /\ metrics[k].Attempts = 2
       /\ metrics[k].Points = 3
       /\ \E i \in EventsOf(metrics[k].Play) : log[i].result = "Foul"

\* The made shots and the shots of a play.
MadeOf(play) ==
  {i \in EventsOf(play) : log[i].result = "Made 2" \/ log[i].result = "Made 3"}

ShotsOf(play) ==
  MadeOf(play) \cup
    {i \in EventsOf(play) : log[i].result = "Missed 2" \/ log[i].result = "Missed 3"}

\* C5: a row's Success Rate is its play's made shots over its shots (made
\* and missed), fouls and other results counting in neither; it is 0 when
\* the play has no shot, and it lies between 0 and 1.
C5_SuccessRate ==
  computed =>
    \A k \in DOMAIN metrics :
      LET made  == Cardinality(MadeOf(metrics[k].Play))
          shots == Cardinality(ShotsOf(metrics[k].Play))
      IN  /\ made <= shots
          /\ shots = 0 => metrics[k].SuccessRate = FZero
          /\ shots > 0 => metrics[k].SuccessRate = FDiv(made, shots)
          /\ FLeq(FZero, metrics[k].SuccessRate)
          /\ FLeq(metrics[k].SuccessRate, FOne)

\* A play with a made shot, a missed shot and a foul has three attempts and
\* rate 1/2: the foul counts in neither number.
C5_Witness ==
  /\ computed
  /\ \E k \in DOMAIN metrics :
       /\ metrics[k].Attempts = 3
       /\ Cardinality(ShotsOf(metrics[k].Play)) = 2
       /\ Cardinality(MadeOf(metrics[k].Play)) = 1
       /\ \E i \in EventsOf(metrics[k].Play) : log[i].result = "Foul"
       /\ metrics[k].SuccessRate = <<-1, 65536, 0, 0>>

\* The float64 sum of the Frequency column, added row by row.
RECURSIVE FrequencySum(_)
FrequencySum(rows) ==
  IF rows = <<>> THEN FZero
  ELSE FAdd(FrequencySum(SubSeq(rows, 1, Len(rows) - 1)), rows[Len(rows)].Frequency)

RECURSIVE AttemptsSum(_)
AttemptsSum(rows) ==
  IF rows = <<>> THEN 0 ELSE Head(rows).Attempts + AttemptsSum(Tail(rows))

\* Every row's Frequency is Attempts / number of events.
FrequencyIsShare ==
  \A k \in DOMAIN metrics :
    metrics[k].Frequency = FDiv(metrics[k].Attempts, Len(log))

\* C6 as stated: for a non-empty log every row's Frequency is its Attempts
\* over the number of events, and the Frequencies sum to exactly 1.
C6_FrequenciesSumToOne ==
  (computed /\ log # <<>>) =>
    /\ FrequencyIsShare
    /\ FrequencySum(metrics) = FOne

\* C6 as amended: for a non-empty log every row's Frequency is the float64
\* quotient of its Attempts by the number of events, and the rows' Attempts
\* sum to the number of events.
C6_FrequencyShares ==
  (computed /\ log # <<>>) =>
    /\ FrequencyIsShare
    /\ AttemptsSum(metrics) = Len(log)

\* Plays with 3 events and 1 event get 3/4 and 1/4, which sum to 1.
C6_Witness ==
  /\ computed
  /\ Len(log) = 4
  /\ Len(metrics) = 2
  /\ \E k, m \in DOMAIN metrics :
       /\ metrics[k].Attempts = 3 /\ metrics[k].Frequency = <<-1, 98304, 0, 0>>
       /\ metrics[m].Attempts = 1 /\ metrics[m].Frequency = <<-2, 65536, 0, 0>>
  /\ FrequencySum(metrics) = FOne

\* C7: of two adjacent rows the earlier has the greater or equal
\* Points/Attempts, and on equal Points/Attempts the greater or equal
\* Attempts; the PPP column is that quotient.
C7_SortedByPPPThenAttempts ==
  computed =>
    /\ \A k \in DOMAIN metrics :
         metrics[k].PPP = FDiv(metrics[k].Points, metrics[k].Attempts)
    /\ \A k \in 1..(Len(metrics) - 1) :
         LET r == metrics[k]
             q == metrics[k + 1]
         IN  /\ r.Points * q.Attempts >= q.Points * r.Attempts
             /\ FLeq(q.PPP, r.PPP)
             /\ r.Points * q.Attempts = q.Points * r.Attempts
                  => r.Attempts >= q.Attempts

\* Two plays tie on PPP 2; the one with two attempts comes first although
\* its name sorts behind the other's.
C7_Witness ==
  /\ computed
  /\ Len(metrics) = 2
  /\ metrics[1].PPP = metrics[2].PPP
  /\ metrics[1].Points = 4 /\ metrics[1].Attempts = 2
  /\ metrics[2].Points = 2 /\ metrics[2].Attempts = 1
  /\ StrLess(metrics[2].Play, metrics[1].Play)

\* C8: an add_play with an empty or whitespace-only name leaves the
\* registry and the log as they were; an add_play that changes the registry
\* appends the trimmed name behind the names already there.
C8_BlankRejectedAddAppends ==
  [][clicked' = AddClicked =>
      /\ log' = log
      /\ AllSpaces(new_play) => plays' = plays
      /\ plays' # plays =>
           /\ Len(plays') = Len(plays) + 1
           /\ SubSeq(plays', 1, Len(plays)) = plays
           /\ IsTrimOf(plays'[Len(plays')], new_play)]_vars

\* A whitespace-only name has just been rejected, after " A" and "b " were
\* added trimmed, in that order, and an event was logged.
C8_Witness ==
  /\ clicked = AddClicked
  /\ new_play = <<" ">>
  /\ plays = <<<<"A">>, <<"b">>>>
  /\ log # <<>>

\* C9: every rejected add_play, for an empty name and for a duplicate,
\* shows the caller something a successful add does not show.
C9_RejectionIsSignalled ==
  [][(/\ clicked' = AddClicked
      /\ \/ AllSpaces(new_play)
         \/ \E i \in DOMAIN plays, t \in Trims(new_play) :
              SameIgnoringCase(t, plays[i]))
     => notice' # NoNotice]_vars

====
